---- MODULE Spec2Model ----
\* A model of swapi.py: the episode conversion and aggregation functions,
\* has_viewer_data, create_starship and the Starship crew/passenger methods.
\*
\* Python values are records [t, n, s, l]: t is the Python type, n the number
\* (floats are kept in hundredths, so 1.5 is n = 150), s the characters of a
\* string (a sequence of one-character strings), l the items of a list of
\* strings.
EXTENDS Integers, Sequences, FiniteSets, TLC

MaxEpisodes == 3
MaxRows == 2

\* ---------------------------------------------------------------- values

None == [t |-> "None", n |-> 0, s |-> <<>>, l |-> <<>>]
StrV(s) == [t |-> "str", n |-> 0, s |-> s, l |-> <<>>]
IntV(n) == [t |-> "int", n |-> n, s |-> <<>>, l |-> <<>>]
FloatV(n) == [t |-> "float", n |-> n, s |-> <<>>, l |-> <<>>]
BoolV(b) == [t |-> "bool", n |-> IF b THEN 1 ELSE 0, s |-> <<>>, l |-> <<>>]
ListV(l) == [t |-> "list", n |-> 0, s |-> <<>>, l |-> l]

\* The outcome of a call: a returned value or a raised exception.
Return(k, v) == [kind |-> k, val |-> v]
Raise(e) == [kind |-> "raise", val |-> e]

\* ------------------------------------------------------ Python builtins

Digits == {"0", "1", "2", "3", "4", "5", "6", "7", "8", "9"}

DigitVal(c) ==
  CASE c = "0" -> 0 [] c = "1" -> 1 [] c = "2" -> 2 [] c = "3" -> 3
    [] c = "4" -> 4 [] c = "5" -> 5 [] c = "6" -> 6 [] c = "7" -> 7
    [] c = "8" -> 8 [] OTHER -> 9

\* str.lower() on the letters the inputs use.
LowerChar(c) ==
  CASE c = "A" -> "a" [] c = "B" -> "b" [] c = "N" -> "n" [] c = "U" -> "u"
    [] OTHER -> c

PyLower(s) == [i \in 1..Len(s) |-> LowerChar(s[i])]

RECURSIVE LStrip(_)
LStrip(s) ==
  IF Len(s) > 0 /\ s[1] = " " THEN LStrip(Tail(s)) ELSE s

RECURSIVE RStrip(_)
RStrip(s) ==
  IF Len(s) > 0 /\ s[Len(s)] = " " THEN RStrip(SubSeq(s, 1, Len(s) - 1)) ELSE s

\* str.strip()
PyStrip(s) == RStrip(LStrip(s))

AllDigits(s) == \A i \in 1..Len(s) : s[i] \in Digits

RECURSIVE DigitsVal(_)
DigitsVal(s) ==
  IF Len(s) = 0 THEN 0
  ELSE 10 * DigitsVal(SubSeq(s, 1, Len(s) - 1)) + DigitVal(s[Len(s)])

\* The value, in hundredths, of the digits after a decimal point (the
\* inputs have at most two of them).
FracVal(s) ==
  IF Len(s) = 0 THEN 0
  ELSE IF Len(s) = 1 THEN 10 * DigitVal(s[1])
  ELSE 10 * DigitVal(s[1]) + DigitVal(s[2])

DotAt(s) == IF \E i \in 1..Len(s) : s[i] = "."
            THEN CHOOSE i \in 1..Len(s) : s[i] = "." /\ \A j \in 1..(i - 1) : s[j] # "."
            ELSE 0

\* int(x): a string must be an integer literal (surrounding blanks allowed),
\* a float is truncated, None and lists are a TypeError.
PyInt(v) ==
  CASE v.t = "str" ->
         LET s == PyStrip(v.s) IN
         IF Len(s) > 0 /\ AllDigits(s) THEN Return("ok", IntV(DigitsVal(s)))
         ELSE Raise("ValueError")
    [] v.t = "float" -> Return("ok", IntV(v.n \div 100))
    [] v.t = "int" -> Return("ok", IntV(v.n))
    [] v.t = "bool" -> Return("ok", IntV(v.n))
    [] OTHER -> Raise("TypeError")

\* float(x): a string must be a decimal literal (digits with at most one
\* point and at least one digit, surrounding blanks allowed).
PyFloat(v) ==
  CASE v.t = "str" ->
         LET s == PyStrip(v.s)
             d == DotAt(s)
             whole == IF d = 0 THEN s ELSE SubSeq(s, 1, d - 1)
             frac == IF d = 0 THEN <<>> ELSE SubSeq(s, d + 1, Len(s))
         IN IF AllDigits(whole) /\ AllDigits(frac) /\ Len(whole) + Len(frac) > 0
            THEN Return("ok", FloatV(100 * DigitsVal(whole) + FracVal(frac)))
            ELSE Raise("ValueError")
    [] v.t = "float" -> Return("ok", FloatV(v.n))
    [] v.t = "int" -> Return("ok", FloatV(100 * v.n))
    [] v.t = "bool" -> Return("ok", FloatV(100 * v.n))
    [] OTHER -> Raise("TypeError")

IsNumber(v) == v.t \in {"float", "int", "bool"}

\* The number a numeric value stands for, in hundredths.
NumVal(v) == IF v.t = "float" THEN v.n ELSE 100 * v.n

\* a > b and a < b for a float a: comparing a float with None, a string or
\* a list is a TypeError.
PyGt(a, b) ==
  IF IsNumber(a) /\ IsNumber(b) THEN Return("ok", NumVal(a) > NumVal(b))
  ELSE Raise("TypeError")

PyLt(a, b) ==
  IF IsNumber(a) /\ IsNumber(b) THEN Return("ok", NumVal(a) < NumVal(b))
  ELSE Raise("TypeError")

\* The first index i >= from at which d occurs in s, or 0.
RECURSIVE Find(_, _, _)
Find(s, d, from) ==
  IF from + Len(d) - 1 > Len(s) THEN 0
  ELSE IF SubSeq(s, from, from + Len(d) - 1) = d THEN from
  ELSE Find(s, d, from + 1)

\* str.split(d) for a non-empty delimiter d.
RECURSIVE PySplit(_, _)
PySplit(s, d) ==
  LET i == Find(s, d, 1) IN
  IF i = 0 THEN <<s>>
  ELSE <<SubSeq(s, 1, i - 1)>> \o PySplit(SubSeq(s, i + Len(d), Len(s)), d)

\* The items a for loop over v visits: the items of a list, the characters
\* of a string; anything else is not iterable.
PyIter(v) ==
  CASE v.t = "list" -> Return("ok", [i \in 1..Len(v.l) |-> StrV(v.l[i])])
    [] v.t = "str" -> Return("ok", [i \in 1..Len(v.s) |-> StrV(<<v.s[i]>>)])
    [] OTHER -> Raise("TypeError")

\* A dict is the sequence of its <<key, value>> items in insertion order.
DictHas(d, k) == \E i \in 1..Len(d) : d[i][1] = k

DictGet(d, k) == d[CHOOSE i \in 1..Len(d) : d[i][1] = k][2]

DictSet(d, k, v) ==
  IF DictHas(d, k)
  THEN [i \in 1..Len(d) |-> IF d[i][1] = k THEN <<k, v>> ELSE d[i]]
  ELSE Append(d, <<k, v>>)

DictKeys(d) == {d[i][1] : i \in 1..Len(d)}

\* ------------------------------------------------------------- sw_utils

NONE_VALUES ==
  { <<>>, <<"n", "/", "a">>, <<"n", "o", "n", "e">>,
    <<"u", "n", "k", "n", "o", "w", "n">> }

convert_to_none(value) ==
  IF value.t = "str" /\ PyStrip(PyLower(value.s)) \in NONE_VALUES
  THEN None ELSE value

convert_to_int(value) ==
  LET r == PyInt(value) IN IF r.kind = "ok" THEN r.val ELSE value

convert_to_float(value) ==
  LET r == PyFloat(value) IN IF r.kind = "ok" THEN r.val ELSE value

convert_to_list(value, delimiter) ==
  IF value.t = "str" THEN ListV(PySplit(value.s, delimiter)) ELSE value

\* ------------------------------------------------------------- episodes

IntKeys == {"series_season_num", "series_episode_num", "season_episode_num"}
FloatKeys == {"episode_prod_code", "episode_us_viewers_mm"}

convert_value(key, value) ==
  LET v1 == convert_to_none(value) IN
  IF v1 = StrV(<<>>) THEN None
  ELSE LET v2 == IF key \in IntKeys THEN convert_to_int(v1) ELSE v1
           v3 == IF key \in FloatKeys THEN convert_to_float(v2) ELSE v2
       IN IF key = "episode_writers" THEN convert_to_list(v3, <<",", " ">>) ELSE v3

convert_episode_values(eps) ==
  [ep \in 1..Len(eps) |->
     [key \in DOMAIN eps[ep] |-> convert_value(key, eps[ep][key])]]

has_viewer_data(episode) ==
  convert_to_float(episode["episode_us_viewers_mm"]).t = "float"

RECURSIVE count_loop(_, _, _)
count_loop(eps, ep, result) ==
  IF ep > Len(eps) THEN result
  ELSE LET d == eps[ep]["episode_director"] IN
       IF DictHas(result, d)
       THEN count_loop(eps, ep + 1, DictSet(result, d, DictGet(result, d) + 1))
       ELSE count_loop(eps, ep + 1, DictSet(result, d, 1))

\* A variant that starts a new director's count at 0.
RECURSIVE count_loop_from_zero(_, _, _)
count_loop_from_zero(eps, ep, result) ==
  IF ep > Len(eps) THEN result
  ELSE LET d == eps[ep]["episode_director"] IN
       IF DictHas(result, d)
       THEN count_loop_from_zero(eps, ep + 1, DictSet(result, d, DictGet(result, d) + 1))
       ELSE count_loop_from_zero(eps, ep + 1, DictSet(result, d, 0))

count_episodes_by_director_from_zero(eps) ==
  Return("dict", count_loop_from_zero(eps, 1, <<>>))

count_episodes_by_director(eps) == Return("dict", count_loop(eps, 1, <<>>))

RECURSIVE least_loop(_, _, _, _)
least_loop(eps, ep, maxi, index) ==
  IF ep > Len(eps) THEN Return("episode", eps[index])
  ELSE IF has_viewer_data(eps[ep])
  THEN LET c == PyLt(convert_to_float(eps[ep]["episode_us_viewers_mm"]), maxi) IN
       IF c.kind = "raise" THEN c
       ELSE IF c.val
            THEN least_loop(eps, ep + 1, eps[ep]["episode_us_viewers_mm"], ep)
            ELSE least_loop(eps, ep + 1, maxi, index)
  ELSE least_loop(eps, ep + 1, maxi, index)

get_least_viewed_episode(eps) ==
  IF Len(eps) = 0 THEN Raise("IndexError")
  ELSE least_loop(eps, 1, eps[1]["episode_us_viewers_mm"], 1)

RECURSIVE most_loop(_, _, _, _)
most_loop(eps, ep, maxi, index) ==
  IF ep > Len(eps) THEN Return("episode", eps[index])
  ELSE IF has_viewer_data(eps[ep])
  THEN LET c == PyGt(convert_to_float(eps[ep]["episode_us_viewers_mm"]), maxi) IN
       IF c.kind = "raise" THEN c
       ELSE IF c.val
            THEN most_loop(eps, ep + 1, eps[ep]["episode_us_viewers_mm"], ep)
            ELSE most_loop(eps, ep + 1, maxi, index)
  ELSE most_loop(eps, ep + 1, maxi, index)

\* A variant that returns None for an empty list instead of indexing it.
get_most_viewed_episode_guarded(eps) ==
  IF Len(eps) = 0 THEN Return("none", None)
  ELSE most_loop(eps, 1, eps[1]["episode_us_viewers_mm"], 1)

get_most_viewed_episode(eps) ==
  IF Len(eps) = 0 THEN Raise("IndexError")
  ELSE most_loop(eps, 1, eps[1]["episode_us_viewers_mm"], 1)

\* The inner loop of group_episodes_by_writer over one episode's writers.
RECURSIVE writer_loop(_, _, _, _)
writer_loop(episode, writers, w, result) ==
  IF w > Len(writers) THEN result
  ELSE LET write == writers[w] IN
       IF DictHas(result, write)
       THEN writer_loop(episode, writers, w + 1,
                        DictSet(result, write, DictGet(result, write) \o <<episode>>))
       ELSE writer_loop(episode, writers, w + 1, DictSet(result, write, <<episode>>))

RECURSIVE group_loop(_, _, _)
group_loop(eps, ep, result) ==
  IF ep > Len(eps) THEN Return("dict", result)
  ELSE LET it == PyIter(eps[ep]["episode_writers"]) IN
       IF it.kind = "raise" THEN it
       ELSE group_loop(eps, ep + 1, writer_loop(eps[ep], it.val, 1, result))

\* A variant whose inner loop puts the episode in front of the writer's list.
RECURSIVE writer_loop_prepend(_, _, _, _)
writer_loop_prepend(episode, writers, w, result) ==
  IF w > Len(writers) THEN result
  ELSE LET write == writers[w] IN
       IF DictHas(result, write)
       THEN writer_loop_prepend(episode, writers, w + 1,
                                DictSet(result, write, <<episode>> \o DictGet(result, write)))
       ELSE writer_loop_prepend(episode, writers, w + 1, DictSet(result, write, <<episode>>))

RECURSIVE group_loop_prepend(_, _, _)
group_loop_prepend(eps, ep, result) ==
  IF ep > Len(eps) THEN Return("dict", result)
  ELSE LET it == PyIter(eps[ep]["episode_writers"]) IN
       IF it.kind = "raise" THEN it
       ELSE group_loop_prepend(eps, ep + 1, writer_loop_prepend(eps[ep], it.val, 1, result))

group_episodes_by_writer_prepend(eps) == group_loop_prepend(eps, 1, <<>>)

group_episodes_by_writer(eps) == group_loop(eps, 1, <<>>)

\* -------------------------------------------------------------- classes

\* Crew(crew_members): one attribute per role of the dictionary (l holds the
\* role names).
Crew(crew_members) ==
  [t |-> "Crew", n |-> 0, s |-> <<>>,
   l |-> [i \in 1..Len(crew_members) |-> crew_members[i][1]]]

\* Passengers(passengers): __init__ is not implemented and sets no attribute.
Passengers(passengers) == [t |-> "Passengers", n |-> 0, s |-> <<>>, l |-> <<>>]

Starship(url, name, model, starship_class) ==
  [ t |-> "Starship", url |-> url, name |-> name, model |-> model,
    starship_class |-> starship_class, MGLT |-> None, crew_members |-> None,
    passengers_on_board |-> None ]

add_passengers(self, passengers) ==
  [self EXCEPT !.passengers_on_board = passengers]

assign_crew_members(self, crew) ==
  [self EXCEPT !.crew_members = crew]

\* ------------------------------------------------------ create_starship

StarshipKeys ==
  << "url", "name", "model", "starship_class", "manufacturer", "length",
     "max_atmosphering_speed", "hyperdrive_rating", "MGLT", "armament", "crew",
     "passengers", "cargo_capacity", "consumables" >>

\* The body of the first loop for one key. The test
\* key == 'length_m' or 'hyperdrive_rating' is true for every key, so
\* convert_to_float is applied to every value that is not None.
convert_starship_value(key, value) ==
  LET v1 == convert_to_none(value) IN
  IF v1 = None THEN Return("ok", None)
  ELSE LET r == IF key \in {"max_atmosphering_speed", "cargo_capacity"}
                THEN PyInt(v1) ELSE Return("ok", v1)
       IN IF r.kind = "raise" THEN r
          ELSE LET v2 == IF key = "armament" THEN convert_to_list(r.val, <<",">>)
                         ELSE r.val
               IN Return("ok", convert_to_float(v2))

\* The first loop: data is converted in place, key by key, up to the first
\* exception.
RECURSIVE convert_starship_data(_, _)
convert_starship_data(d, k) ==
  IF k > Len(StarshipKeys) THEN [kind |-> "ok", err |-> "", data |-> d]
  ELSE LET key == StarshipKeys[k]
           r == convert_starship_value(key, d[key])
       IN IF r.kind = "raise"
          THEN [kind |-> "raise", err |-> r.val,
                data |-> [d EXCEPT ![key] = convert_to_none(d[key])]]
          ELSE convert_starship_data([d EXCEPT ![key] = r.val], k + 1)

\* The constructor call and the second loop.
build_starship(d) ==
  LET speed == PyInt(d["max_atmosphering_speed"])
      cargo == PyInt(d["cargo_capacity"])
      ship == Starship(d["url"], d["name"], d["model"], d["starship_class"])
  IN IF speed.kind = "raise" THEN speed
     ELSE IF cargo.kind = "raise" THEN cargo
     ELSE Return("Starship",
            [ t |-> "Starship", url |-> ship.url, name |-> ship.name,
              model |-> ship.model, starship_class |-> ship.starship_class,
              manufacturer |-> d["manufacturer"], length_m |-> d["length"],
              max_atmosphering_speed |-> speed.val,
              hyperdrive_rating |-> d["hyperdrive_rating"], MGLT |-> None,
              armament |-> d["armament"], crew_members |-> None,
              passengers_on_board |-> None, cargo_capacity_kg |-> cargo.val,
              consumables |-> d["consumables"] ])

create_starship(d) ==
  LET c == convert_starship_data(d, 1) IN
  IF c.kind = "raise" THEN Raise(c.err) ELSE build_starship(c.data)

\* ---------------------------------------------------------------- state

VARIABLES episodes, data, starship, op, arg, ret

vars == <<episodes, data, starship, op, arg, ret>>

A == <<"A">>
B == <<"B">>
AB == <<"A", ",", " ", "B">>
AA == <<"A", ",", " ", "A">>

RawEpisode(title, director, writers, num, code, viewers) ==
  [ series_season_num |-> StrV(num),
    series_episode_num |-> StrV(num),
    season_episode_num |-> StrV(num),
    episode_title |-> StrV(title),
    episode_director |-> StrV(director),
    episode_writers |-> StrV(writers),
    episode_prod_code |-> StrV(code),
    episode_us_viewers_mm |-> StrV(viewers) ]

\* <<director, writers>>
Credits == { <<A, B>>, <<A, AB>>, <<B, AA>>, <<B, B>> }

ViewerStrs == { <<>>, <<"1", ".", "5">>, <<"2">> }

RawEpisodes ==
  { RawEpisode(<<"a", "b">>, c[1], c[2], <<"7">>, <<"1", ".", "5">>, v) :
      c \in Credits, v \in ViewerStrs }

SeqsUpTo(S, n) == UNION { [1..k -> S] : k \in 0..n }

Init ==
  /\ episodes \in SeqsUpTo(RawEpisodes, MaxEpisodes)
  /\ data = <<>>
  /\ starship = None
  /\ op = "start"
  /\ arg = <<>>
  /\ ret = Return("none", None)

ConvertEpisodeValues ==
  /\ episodes' = convert_episode_values(episodes)
  /\ op' = "convert_episode_values"
  /\ arg' = episodes
  /\ ret' = Return("list", convert_episode_values(episodes))
  /\ UNCHANGED <<data, starship>>

CountEpisodesByDirector ==
  /\ op' = "count_episodes_by_director"
  /\ arg' = episodes
  /\ ret' = count_episodes_by_director(episodes)
  /\ UNCHANGED <<episodes, data, starship>>

GetLeastViewedEpisode ==
  /\ op' = "get_least_viewed_episode"
  /\ arg' = episodes
  /\ ret' = get_least_viewed_episode(episodes)
  /\ UNCHANGED <<episodes, data, starship>>

GetMostViewedEpisode ==
  /\ op' = "get_most_viewed_episode"
  /\ arg' = episodes
  /\ ret' = get_most_viewed_episode(episodes)
  /\ UNCHANGED <<episodes, data, starship>>

GroupEpisodesByWriter ==
  /\ op' = "group_episodes_by_writer"
  /\ arg' = episodes
  /\ ret' = group_episodes_by_writer(episodes)
  /\ UNCHANGED <<episodes, data, starship>>

Next ==
  \/ ConvertEpisodeValues
  \/ CountEpisodesByDirector
  \/ GetLeastViewedEpisode
  \/ GetMostViewedEpisode
  \/ GroupEpisodesByWriter

Spec == Init /\ [][Next]_vars

\* ------------------------------------- conversion and has_viewer_data

Unknown == <<"U", "n", "k", "n", "o", "w", "n">>

RowStrs == { <<>>, <<" ">>, <<"7">>, <<"1", ".", "5">>, Unknown, <<"a", "b">> }

RowWriters == { AB, Unknown, <<>> }

\* Rows of the episode file: every column is a string.
Rows == { RawEpisode(x, x, w, x, x, x) : x \in RowStrs, w \in RowWriters }

ProbeValues ==
  { None, StrV(<<>>), StrV(<<" ">>), StrV(<<"1", ".", "5">>), StrV(<<"a", "b">>),
    IntV(0), IntV(3), FloatV(0), FloatV(150), BoolV(FALSE), BoolV(TRUE) }

ProbeEpisodes ==
  { [RawEpisode(<<"a", "b">>, A, B, <<"7">>, <<"7">>, <<>>)
       EXCEPT !["episode_us_viewers_mm"] = v] : v \in ProbeValues }

InitConvert ==
  /\ episodes \in SeqsUpTo(Rows, MaxRows)
  /\ data = <<>>
  /\ starship = None
  /\ op = "start"
  /\ arg = <<>>
  /\ ret = Return("none", None)

HasViewerData ==
  \E e \in ProbeEpisodes \cup {episodes[i] : i \in 1..Len(episodes)} :
    /\ op' = "has_viewer_data"
    /\ arg' = e
    /\ ret' = Return("bool", has_viewer_data(e))
    /\ UNCHANGED <<episodes, data, starship>>

NextConvert ==
  \/ ConvertEpisodeValues
  \/ HasViewerData

SpecConvert == InitConvert /\ [][NextConvert]_vars

\* ------------------------------------------------------------ starships

StarshipData(speed, cargo, armament) ==
  [ url |-> StrV(<<"u">>), name |-> StrV(<<"a", "b">>), model |-> StrV(<<"a">>),
    starship_class |-> StrV(<<"b">>), manufacturer |-> StrV(Unknown),
    length |-> StrV(<<"2", "6">>), max_atmosphering_speed |-> StrV(speed),
    hyperdrive_rating |-> StrV(<<"1", ".", "5">>), MGLT |-> StrV(<<"7">>),
    armament |-> StrV(armament), crew |-> StrV(<<"2">>),
    passengers |-> StrV(<<"6">>), cargo_capacity |-> StrV(cargo),
    consumables |-> StrV(<<"a", "b">>) ]

NumberStrs == { <<>>, Unknown, <<"a", "b">>, <<"7", "5">> }

ArmamentStrs == { <<"a", ",", "b">>, <<"n", "/", "a">> }

Pilot == <<"p", "i", "l", "o", "t">>

\* What the callers may pass to add_passengers and assign_crew_members.
Objects ==
  { Crew(<< <<Pilot, A>> >>), Crew(<< <<Pilot, A>>, <<A, B>> >>),
    Passengers(<<A, B>>), None, StrV(<<"a", "b">>) }

InitShip ==
  /\ episodes = <<>>
  /\ data \in { StarshipData(sp, c, a) :
                  sp \in NumberStrs, c \in NumberStrs, a \in ArmamentStrs }
  /\ starship = None
  /\ op = "start"
  /\ arg = <<>>
  /\ ret = Return("none", None)

CreateStarship ==
  /\ op' = "create_starship"
  /\ arg' = data
  /\ data' = convert_starship_data(data, 1).data
  /\ ret' = create_starship(data)
  /\ starship' = IF create_starship(data).kind = "Starship"
                 THEN create_starship(data).val ELSE starship
  /\ UNCHANGED episodes

AddPassengers ==
  /\ starship.t = "Starship"
  /\ \E passengers \in Objects :
       /\ op' = "add_passengers"
       /\ arg' = passengers
       /\ starship' = add_passengers(starship, passengers)
       /\ ret' = Return("none", None)
  /\ UNCHANGED <<episodes, data>>

AssignCrewMembers ==
  /\ starship.t = "Starship"
  /\ \E crew \in Objects :
       /\ op' = "assign_crew_members"
       /\ arg' = crew
       /\ starship' = assign_crew_members(starship, crew)
       /\ ret' = Return("none", None)
  /\ UNCHANGED <<episodes, data>>

NextShip ==
  \/ CreateStarship
  \/ AddPassengers
  \/ AssignCrewMembers

SpecShip == InitShip /\ [][NextShip]_vars

\* ------------------------------------------------- properties: episodes

Viewers(e) == e["episode_us_viewers_mm"]

\* The viewer values are the typed ones: a float or None.
TypedViewers(eps) == \A i \in 1..Len(eps) : Viewers(eps[i]).t \in {"float", "None"}

WithData(eps) == {i \in 1..Len(eps) : Viewers(eps[i]).t = "float"}

\* C1: for a non-empty list in which some episode has viewer data,
\* get_most_viewed_episode returns the earliest episode among those with the
\* greatest viewership; episodes without a value, also at index 0, are
\* ignored.
C1_MostViewedIgnoresMissing ==
  (op = "get_most_viewed_episode" /\ TypedViewers(arg) /\ WithData(arg) # {}) =>
    /\ ret.kind = "episode"
    /\ \E i \in WithData(arg) :
         /\ ret.val = arg[i]
         /\ \A j \in WithData(arg) : Viewers(arg[i]).n >= Viewers(arg[j]).n
         /\ \A j \in WithData(arg) : j < i => Viewers(arg[j]).n < Viewers(arg[i]).n

\* C2: for a non-empty list in which some episode has viewer data,
\* get_least_viewed_episode returns the earliest episode among those with the
\* smallest viewership; episodes without a value, also at index 0, are
\* ignored.
C2_LeastViewedIgnoresMissing ==
  (op = "get_least_viewed_episode" /\ TypedViewers(arg) /\ WithData(arg) # {}) =>
    /\ ret.kind = "episode"
    /\ \E i \in WithData(arg) :
         /\ ret.val = arg[i]
         /\ \A j \in WithData(arg) : Viewers(arg[i]).n <= Viewers(arg[j]).n
         /\ \A j \in WithData(arg) : j < i => Viewers(arg[j]).n > Viewers(arg[i]).n

Directors(eps) == {eps[i]["episode_director"] : i \in 1..Len(eps)}

RECURSIVE SumCounts(_)
SumCounts(d) == IF Len(d) = 0 THEN 0 ELSE Head(d)[2] + SumCounts(Tail(d))

\* C3: count_episodes_by_director returns a dictionary whose keys are exactly
\* the directors occurring in the list, each mapped to the number of episodes
\* with that director; the counts sum to the length of the list and the list
\* is not modified.
C3_CountByDirector ==
  op = "count_episodes_by_director" =>
    /\ ret.kind = "dict"
    /\ DictKeys(ret.val) = Directors(arg)
    /\ Len(ret.val) = Cardinality(Directors(arg))
    /\ \A i \in 1..Len(ret.val) :
         ret.val[i][2] =
           Cardinality({j \in 1..Len(arg) : arg[j]["episode_director"] = ret.val[i][1]})
    /\ SumCounts(ret.val) = Len(arg)
    /\ episodes = arg

C3_Witness ==
  /\ op = "count_episodes_by_director"
  /\ Len(arg) = 3
  /\ ret.kind = "dict"
  /\ Len(ret.val) = 2
  /\ \E i \in 1..Len(ret.val) : ret.val[i][2] = 2

Writers(e) == e["episode_writers"]

WritersAreLists(eps) == \A i \in 1..Len(eps) : Writers(eps[i]).t = "list"

WriterNames(eps) ==
  UNION { {StrV(Writers(eps[i]).l[k]) : k \in 1..Len(Writers(eps[i]).l)} :
            i \in 1..Len(eps) }

\* The number of times the name w occurs in the episode's writers.
Occurrences(e, w) ==
  Cardinality({k \in 1..Len(Writers(e).l) : StrV(Writers(e).l[k]) = w})

HasWriter(e, w) == Occurrences(e, w) > 0

RECURSIVE Copies(_, _)
Copies(e, n) == IF n = 0 THEN <<>> ELSE <<e>> \o Copies(e, n - 1)

\* The episodes of w in list order, each once per occurrence of w.
RECURSIVE EpisodesOf(_, _)
EpisodesOf(eps, w) ==
  IF Len(eps) = 0 THEN <<>>
  ELSE Copies(Head(eps), Occurrences(Head(eps), w)) \o EpisodesOf(Tail(eps), w)

\* C4 as stated: group_episodes_by_writer maps each writer occurring in the
\* list to exactly the episodes that name the writer, in list order, each
\* episode exactly once.
C4_EachEpisodeOnce ==
  (op = "group_episodes_by_writer" /\ WritersAreLists(arg)) =>
    /\ ret.kind = "dict"
    /\ DictKeys(ret.val) = WriterNames(arg)
    /\ Len(ret.val) = Cardinality(WriterNames(arg))
    /\ \A i \in 1..Len(ret.val) :
         ret.val[i][2] = SelectSeq(arg, LAMBDA e : HasWriter(e, ret.val[i][1]))

\* C4 amended: group_episodes_by_writer maps each writer occurring in the
\* list to the episodes that name the writer, in list order, each episode
\* once per occurrence of the writer in its episode_writers (exactly once
\* when the names of an episode are distinct).
C4_EachEpisodePerOccurrence ==
  (op = "group_episodes_by_writer" /\ WritersAreLists(arg)) =>
    /\ ret.kind = "dict"
    /\ DictKeys(ret.val) = WriterNames(arg)
    /\ Len(ret.val) = Cardinality(WriterNames(arg))
    /\ \A i \in 1..Len(ret.val) :
         ret.val[i][2] = EpisodesOf(arg, ret.val[i][1])

C4_Witness ==
  /\ op = "group_episodes_by_writer"
  /\ Len(arg) = 3
  /\ WritersAreLists(arg)
  /\ ret.kind = "dict"
  /\ Len(ret.val) = 2
  /\ \E i \in 1..3 : Occurrences(arg[i], StrV(A)) = 2
  /\ \E i \in 1..3 : Occurrences(arg[i], StrV(A)) = 1 /\ Occurrences(arg[i], StrV(B)) = 1
  /\ Writers(arg[1]) # Writers(arg[2])

\* C10: get_most_viewed_episode and get_least_viewed_episode raise an
\* IndexError on an empty list; count_episodes_by_director and
\* group_episodes_by_writer return an empty dictionary for it.
C10_EmptyList ==
  /\ (op \in {"get_most_viewed_episode", "get_least_viewed_episode"} /\ Len(arg) = 0) =>
       (ret.kind = "raise" /\ ret.val = "IndexError")
  /\ (op \in {"count_episodes_by_director", "group_episodes_by_writer"} /\ Len(arg) = 0) =>
       (ret.kind = "dict" /\ Len(ret.val) = 0)

C10_Witness ==
  /\ op = "get_most_viewed_episode"
  /\ Len(arg) = 0
  /\ ret.kind = "raise"

\* ------------------------------ properties: conversion, has_viewer_data

Blank(v) == v.t = "str" /\ PyStrip(v.s) = <<>>

\* The values the docstring of has_viewer_data calls falsy.
Falsy(v) ==
  \/ v.t = "None"
  \/ Blank(v)
  \/ (v.t \in {"int", "float", "bool"} /\ v.n = 0)
  \/ (v.t = "list" /\ Len(v.l) = 0)

\* C5: has_viewer_data returns True exactly when the episode's
\* episode_us_viewers_mm is truthy, and False for None, an empty or blank
\* string, 0, 0.0 and False.
C5_TruthValue ==
  op = "has_viewer_data" =>
    (ret.kind = "bool" /\ ret.val = ~Falsy(Viewers(arg)))

AllStrings(eps) ==
  \A i \in 1..Len(eps) : \A key \in DOMAIN eps[i] : eps[i][key].t = "str"

\* C6: after convert_episode_values every blank or empty value is None, the
\* three number columns hold ints and the two float columns hold floats when
\* their strings were numeric, episode_writers holds the list split on ', ',
\* every other key keeps its value, and the length of the list and the keys
\* of each episode are unchanged.
C6_ConvertedValues ==
  (op = "convert_episode_values" /\ AllStrings(arg)) =>
    /\ ret.kind = "list"
    /\ ret.val = episodes
    /\ Len(ret.val) = Len(arg)
    /\ \A i \in 1..Len(arg) :
         /\ DOMAIN ret.val[i] = DOMAIN arg[i]
         /\ \A key \in DOMAIN arg[i] :
              LET old == arg[i][key]
                  new == ret.val[i][key]
              IN IF Blank(old) THEN new = None
                 ELSE IF key \in IntKeys
                      THEN PyInt(old).kind = "ok" => new = PyInt(old).val
                 ELSE IF key \in FloatKeys
                      THEN PyFloat(old).kind = "ok" => new = PyFloat(old).val
                 ELSE IF key = "episode_writers"
                      THEN new = ListV(PySplit(old.s, <<",", " ">>))
                 ELSE new = old

\* ------------------------------------------------ properties: starships

\* C7: add_passengers assigns passengers_on_board only when the argument is
\* a Passengers instance; otherwise passengers_on_board keeps its value.
C7_OnlyPassengersAssigned ==
  [][(op' = "add_passengers" /\ arg'.t # "Passengers") =>
       starship'.passengers_on_board = starship.passengers_on_board]_vars

\* C8: assign_crew_members assigns crew_members only when the argument is a
\* Crew instance; otherwise crew_members keeps its value.
C8_OnlyCrewAssigned ==
  [][(op' = "assign_crew_members" /\ arg'.t # "Crew") =>
       starship'.crew_members = starship.crew_members]_vars

\* A column value that is blank, unknown or not a number.
NotANumber(v) == v.t = "str" /\ PyFloat(v).kind = "raise"

\* C9: create_starship never raises on a value it cannot convert: when
\* cargo_capacity or max_atmosphering_speed is blank, unknown or not a
\* number it still returns a Starship whose attribute holds the original
\* value or None.
C9_NoRaiseOnUnconvertible ==
  (/\ op = "create_starship"
   /\ \/ NotANumber(arg["cargo_capacity"])
      \/ NotANumber(arg["max_atmosphering_speed"])) =>
    /\ ret.kind = "Starship"
    /\ NotANumber(arg["cargo_capacity"]) =>
         ret.val.cargo_capacity_kg \in {arg["cargo_capacity"], None}
    /\ NotANumber(arg["max_atmosphering_speed"]) =>
         ret.val.max_atmosphering_speed \in {arg["max_atmosphering_speed"], None}

====
